---- MODULE Spec2Model ----
(***************************************************************************)
(* Model of src/scripts.js: the DOMContentLoaded handler of the portfolio  *)
(* page and the event handlers it registers (nav-link clicks, scroll       *)
(* listeners and their debounced copies, the mobile menu, the reveal       *)
(* observer).                                                              *)
(*                                                                         *)
(* The DOM is the state.  A page (its links, sections, header height) is   *)
(* chosen in Init and never changes; handlers run to completion, one       *)
(* event at a time, listeners in registration order.                       *)
(***************************************************************************)
EXTENDS Integers, Sequences, FiniteSets, TLC

VARIABLES
    page,           \* the markup the script runs against (fixed after Init)
    scrollY,        \* window.scrollY
    active,         \* indices of navLinks whose classList has 'active'
    panelActive,    \* mobileNavLinks.classList has 'active'
    btnActive,      \* mobileMenuBtn.classList has 'active'
    headerStyle,    \* inline style of <header>: "css" (none), "scrolled", "top"
    scrollReq,      \* <<top>> of the last window.scrollTo request, <<>> before any
    event,          \* the event dispatched last: type, target, defaultPrevented
    repeated,       \* the last event repeats the one before (same target or position)
    timeout,        \* per debounced function: the pending timer, <<>> when none
    sinceCall,      \* ms since the last scroll event (saturates at Wait)
    burstCalls,     \* scroll events in the current burst
    debRuns,        \* per debounced function: invocations of func in the burst
    funcRuns,       \* per function: runs (direct or debounced) in the burst
    clicked,        \* <<l, fresh>>: the link whose scrollTo request is under way or
                    \* settled, fresh until a scroll event follows the click; else <<>>
    queue,          \* listeners still to run for the event being dispatched
    touchStartY,    \* let touchStartY, line 261
    observed,       \* the elements the IntersectionObserver watches
    revealed,       \* observed elements whose classList has 'fade-in','visible'
    entries,        \* the batch the observer callback was last called with
    pc,             \* position of the DOMContentLoaded handler
    registered,     \* listeners registered so far by the handler
    particles,      \* particles appended to the hero so far
    dom             \* which optional elements the page has

navVars == <<page, scrollY, active, panelActive, btnActive, headerStyle,
             scrollReq, event, repeated, timeout, sinceCall, burstCalls,
             debRuns, funcRuns, clicked, queue, touchStartY>>
revealVars == <<observed, revealed, entries>>
loadVars == <<pc, registered, particles, dom>>
vars == <<navVars, revealVars, loadVars>>

----------------------------------------------------------------------------
(* Program constants *)

ProbeOffset == 100
HeaderThreshold == 50
Wait == 10
ParticleCount == 20

(* Bounds of the model *)

ScrollGrid == 50
TickMs == 5
MaxBurst == 2
NumObserved == 3
MaxTouchY == 2

----------------------------------------------------------------------------
(* Pages.  An href is a sequence: <<"#", id>> for a same-page fragment,    *)
(* <<url>> for anything else, <<>> for a link without href attribute.      *)

NoHref == <<>>
Frag(id) == <<"#", id>>

PageA ==
    [ name |-> "A", headerHeight |-> 60, innerHeight |-> 300, bodyHeight |-> 600,
      hasMenuBtn |-> TRUE,
      sections |-> << [id |-> "home", top |-> 0, height |-> 200],
                      [id |-> "about", top |-> 200, height |-> 200],
                      [id |-> "projects", top |-> 400, height |-> 200] >>,
      others |-> << >>,
      hrefs |-> << Frag("home"), Frag("about"), Frag("projects"),
                   <<"https://example.com">> >> ]

PageB ==
    [ name |-> "B", headerHeight |-> 120, innerHeight |-> 300, bodyHeight |-> 700,
      hasMenuBtn |-> TRUE,
      sections |-> << [id |-> "about", top |-> 150, height |-> 150],
                      [id |-> "projects", top |-> 400, height |-> 200] >>,
      others |-> << [id |-> "contact", top |-> 600] >>,
      hrefs |-> << Frag("about"), Frag("about"), Frag("projects"),
                   Frag("missing"), Frag("contact") >> ]

PageC ==
    [ name |-> "C", headerHeight |-> 120, innerHeight |-> 300, bodyHeight |-> 600,
      hasMenuBtn |-> FALSE,
      sections |-> << [id |-> "home", top |-> 0, height |-> 300],
                      [id |-> "about", top |-> 300, height |-> 300] >>,
      others |-> << >>,
      hrefs |-> << Frag("home"), Frag("about"), NoHref >> ]

\* a page shorter than the window: it cannot scroll
PageD ==
    [ name |-> "D", headerHeight |-> 60, innerHeight |-> 300, bodyHeight |-> 250,
      hasMenuBtn |-> TRUE,
      sections |-> << [id |-> "home", top |-> 0, height |-> 250] >>,
      others |-> << >>,
      hrefs |-> << Frag("home") >> ]

Pages == {PageA, PageB, PageC, PageD}

navLinks == 1 .. Len(page.hrefs)
getAttributeHref(l) == page.hrefs[l]
Sections == 1 .. Len(page.sections)

\* as IsAnchor, without the startsWith test
IsAnchorAnyHref(href) == Len(href) > 0

\* href && href.startsWith('#')
IsAnchor(href) == Len(href) > 0 /\ href[1] = "#"

DistinctHrefs(p) ==
    \A i, j \in 1 .. Len(p.hrefs) : p.hrefs[i] = p.hrefs[j] => i = j

\* document.querySelector(href) for a fragment href: the elements with that id
Targets(href) ==
    { page.sections[s].top : s \in { t \in Sections : Frag(page.sections[t].id) = href } }
      \cup
    { page.others[o].top : o \in { t \in 1 .. Len(page.others) : Frag(page.others[t].id) = href } }

\* <<>> for null, else <<offsetTop>> of the first element in document order
querySelector(href) ==
    IF Targets(href) = {} THEN <<>>
    ELSE << CHOOSE t \in Targets(href) : \A u \in Targets(href) : t <= u >>

Min(a, b) == IF a < b THEN a ELSE b
Max(a, b) == IF a > b THEN a ELSE b

MaxScrollY == Max(0, page.bodyHeight - page.innerHeight)
Clamp(y) == Max(0, Min(y, MaxScrollY))

\* positions the window can be scrolled to: a grid, the two positions around
\* the header threshold, and where the last scrollTo request settles
ScrollYs ==
    { y \in 0 .. MaxScrollY : y % ScrollGrid = 0 }
      \cup { y \in {HeaderThreshold, HeaderThreshold + 1} : y <= MaxScrollY }
      \cup { Clamp(scrollReq[i]) : i \in 1 .. Len(scrollReq) }

----------------------------------------------------------------------------
(* Events *)

\* menuWasOpen: whether the menu panel was open when the event was dispatched
NoEvent ==
    [type |-> "none", target |-> <<>>, defaultPrevented |-> FALSE, menuWasOpen |-> FALSE]
Event(type, target, prevented) ==
    [type |-> type, target |-> target, defaultPrevented |-> prevented,
     menuWasOpen |-> panelActive]

Debounced == {"nav", "hdr"}

----------------------------------------------------------------------------
(* Nav link click handler, lines 6-34 *)

\* as ClickActivate, without line 27
ClickActivateNoClear(act, l) == act \cup {l}

\* as ClickActivate, with classList.toggle for classList.add
ClickActivateToggle(act, l) == IF l \in act THEN act \ navLinks ELSE (act \ navLinks) \cup {l}

\* lines 27-28: navLinks.forEach(remove 'active'); this.classList.add('active')
ClickActivate(act, l) == (act \ navLinks) \cup {l}

\* lines 18-19: targetSection.offsetTop - headerHeight
ClickOffsetTop(target) == target[1] - page.headerHeight

\* as AnchorClick, with lines 26-28 outside the test of line 17
AnchorClickNoNullTest(l, req, act) ==
    LET href == getAttributeHref(l)
        targetSection == querySelector(href)
    IN  IF ~IsAnchor(href) THEN <<FALSE, req, act>>
        ELSE IF targetSection = <<>> THEN <<TRUE, req, ClickActivate(act, l)>>
        ELSE <<TRUE, <<ClickOffsetTop(targetSection)>>, ClickActivate(act, l)>>

\* the listener of lines 11-30, attached only when line 10 holds
\* result: <<defaultPrevented, scrollReq, active>>
AnchorClick(l, req, act) ==
    LET href == getAttributeHref(l)
        targetSection == querySelector(href)
    IN  IF ~IsAnchor(href) THEN <<FALSE, req, act>>
        ELSE IF targetSection = <<>> THEN <<TRUE, req, act>>
        ELSE <<TRUE, <<ClickOffsetTop(targetSection)>>, ClickActivate(act, l)>>

----------------------------------------------------------------------------
(* Mobile menu, lines 77-102: listeners exist only when line 81 holds *)

\* lines 83-84: classList.toggle('active')
MenuToggle(has) == ~has

\* as MenuLinkClick, with the listeners of lines 88-93 missing
MenuLinkClickNone(has) == has

\* lines 88-93: the menu's own listener on every link: classList.remove('active')
MenuLinkClick(has) == IF page.hasMenuBtn THEN FALSE ELSE has

\* as MenuLinkClickBtn, without line 91
MenuLinkClickBtnKept(has) == has

\* line 91, in the same listener: mobileMenuBtn.classList.remove('active')
MenuLinkClickBtn(has) == IF page.hasMenuBtn THEN FALSE ELSE has

\* lines 96-101 for a target outside the button and the panel
OutsideClose(has) == IF page.hasMenuBtn THEN FALSE ELSE has

----------------------------------------------------------------------------
(* updateActiveNavLink, lines 37-55 *)

\* line 46: scrollPosition >= sectionTop && scrollPosition < sectionTop + sectionHeight
InSection(scrollPosition, section) ==
    /\ scrollPosition >= section.top
    /\ scrollPosition < section.top + section.height

\* as MarkLinks, without line 48
RECURSIVE MarkLinksNoRemove(_, _, _)
MarkLinksNoRemove(act, sectionId, l) ==
    IF l > Len(page.hrefs) THEN act
    ELSE MarkLinksNoRemove(IF getAttributeHref(l) = Frag(sectionId)
                           THEN act \cup {l}
                           ELSE act,
                           sectionId, l + 1)

\* lines 47-52 for the links l, l+1, ...: remove 'active', add it back when
\* the href is `#${sectionId}`
RECURSIVE MarkLinks(_, _, _)
MarkLinks(act, sectionId, l) ==
    IF l > Len(page.hrefs) THEN act
    ELSE MarkLinks(IF getAttributeHref(l) = Frag(sectionId)
                   THEN (act \ {l}) \cup {l}
                   ELSE act \ {l},
                   sectionId, l + 1)

\* as EachSection, with line 48 moved out of the test of line 46
RECURSIVE EachSectionClearFirst(_, _, _)
EachSectionClearFirst(act, scrollPosition, s) ==
    IF s > Len(page.sections) THEN act
    ELSE EachSectionClearFirst(IF InSection(scrollPosition, page.sections[s])
                               THEN MarkLinks(act, page.sections[s].id, 1)
                               ELSE act \ navLinks,
                               scrollPosition, s + 1)

\* lines 41-54 for the sections s, s+1, ...
RECURSIVE EachSection(_, _, _)
EachSection(act, scrollPosition, s) ==
    IF s > Len(page.sections) THEN act
    ELSE EachSection(IF InSection(scrollPosition, page.sections[s])
                     THEN MarkLinks(act, page.sections[s].id, 1)
                     ELSE act,
                     scrollPosition, s + 1)

updateActiveNavLink(act, y) == EachSection(act, y + ProbeOffset, 1)

----------------------------------------------------------------------------
(* updateHeader, lines 155-163 *)

\* as updateHeader, with >= for >
updateHeaderGe(y) == IF y >= HeaderThreshold THEN "scrolled" ELSE "top"

updateHeader(y) == IF y > HeaderThreshold THEN "scrolled" ELSE "top"

----------------------------------------------------------------------------
(* debounce, lines 236-246.  A timer is <<>> (none pending) or             *)
(* <<[rem |-> ms left, args |-> the call's arguments]>>.                   *)

NoTimer == <<>>

\* as executedFunction, with a pending timer left running (no line 243)
executedFunctionNoReset(t, args) ==
    IF t = <<>> THEN << [rem |-> Wait, args |-> args] >> ELSE t

\* lines 243-244: clearTimeout(timeout); timeout = setTimeout(later, wait)
executedFunction(t, args) == << [rem |-> Wait, args |-> args] >>

Due(t) == t # NoTimer /\ t[1].rem = 0
Pending(t) == t # NoTimer
NoneDue == \A d \in Debounced : ~Due(timeout[d])

\* time passes: dt ms off every pending timer
Elapse(t, dt) == IF t = NoTimer THEN t ELSE << [t[1] EXCEPT !.rem = @ - dt] >>

\* the next step of time: TickMs, or less when a timer is due sooner
Step ==
    LET rems == { timeout[d][1].rem : d \in { e \in Debounced : Pending(timeout[e]) } }
    IN  IF rems = {} THEN TickMs
        ELSE Min(TickMs, CHOOSE r \in rems : \A q \in rems : r <= q)

----------------------------------------------------------------------------
(* The DOMContentLoaded handler, lines 2-278, statement by statement.      *)
(* dom holds the optional elements the page has; a listener is             *)
(* <<event type, what it is attached to or runs>>.                         *)

Optional == {"resume-toggle-btn", "resume-content", "hero-subtitle", "hero"}
Observed == 1 .. NumObserved

NavLinkListeners(p) ==
    { <<"click", "navLink", l>> : l \in { k \in 1 .. Len(p.hrefs) : IsAnchor(p.hrefs[k]) } }
MenuListeners(p) ==
    IF p.hasMenuBtn
    THEN { <<"click", "mobileMenuBtn">>, <<"click", "menuLink">>, <<"click", "document">> }
    ELSE {}
ResumeListeners(d) ==
    IF {"resume-toggle-btn", "resume-content"} \subseteq d
    THEN { <<"click", "resumeToggleBtn">> } ELSE {}
DebouncedListeners ==
    { <<"scroll", "debounce(updateActiveNavLink)">>, <<"scroll", "debounce(updateHeader)">> }
TouchListeners == { <<"touchstart", "document">>, <<"touchmove", "document">> }
KeyListeners == { <<"keydown", "document">> }

\* everything the handler registers when it runs to its end
AllListeners(p, d) ==
    NavLinkListeners(p) \cup MenuListeners(p) \cup ResumeListeners(d)
      \cup { <<"scroll", "updateActiveNavLink">>, <<"scroll", "updateHeader">>,
             <<"mouseenter", "card">>, <<"mouseleave", "card">>, <<"click", "projectLink">> }
      \cup (IF "hero-subtitle" \in d THEN { <<"timeout", "typeWriter">> } ELSE {})
      \cup DebouncedListeners \cup KeyListeners \cup TouchListeners

\* the state the handler leaves on a page that has every optional element
Loaded ==
    /\ pc = "done"
    /\ dom = Optional
    /\ particles = ParticleCount
    /\ registered = AllListeners(page, dom)

navUnchanged == UNCHANGED navVars

Goto(from, to, listeners) ==
    /\ pc = from
    /\ pc' = to
    /\ registered' = registered \cup listeners
    /\ UNCHANGED <<particles, dom>>

\* lines 4-34
AddNavLinkListeners ==
    /\ Goto("navLinks", "scrollNav", NavLinkListeners(page))
    /\ UNCHANGED revealVars /\ navUnchanged

\* line 57
AddScrollNav ==
    /\ Goto("scrollNav", "resume", { <<"scroll", "updateActiveNavLink">> })
    /\ UNCHANGED revealVars /\ navUnchanged

\* lines 60-75
AddResumeToggle ==
    /\ Goto("resume", "menu", ResumeListeners(dom))
    /\ UNCHANGED revealVars /\ navUnchanged

\* lines 78-102
AddMobileMenu ==
    /\ Goto("menu", "observer", MenuListeners(page))
    /\ UNCHANGED revealVars /\ navUnchanged

\* lines 105-128: the observer is created and given the cards and sections
ObserveAll ==
    /\ Goto("observer", "cards", {})
    /\ observed' = Observed
    /\ UNCHANGED <<revealed, entries>> /\ navUnchanged

\* lines 131-151
AddCardListeners ==
    /\ Goto("cards", "scrollHdr",
            { <<"mouseenter", "card">>, <<"mouseleave", "card">>, <<"click", "projectLink">> })
    /\ UNCHANGED revealVars /\ navUnchanged

\* lines 154-165
AddScrollHdr ==
    /\ Goto("scrollHdr", "typing", { <<"scroll", "updateHeader">> })
    /\ UNCHANGED revealVars /\ navUnchanged

\* lines 168-184: the typing effect, only with a subtitle
StartTyping ==
    /\ Goto("typing", "particles",
            IF "hero-subtitle" \in dom THEN { <<"timeout", "typeWriter">> } ELSE {})
    /\ UNCHANGED revealVars /\ navUnchanged

\* what hero.appendChild(particle) of line 207 does: hero is the result of
\* querySelector('.hero'), null when the page has none
appendChild(d) == IF "hero" \in d THEN "appended" ELSE "TypeError"

\* lines 191-208, one iteration: the exception leaves createParticles and the
\* DOMContentLoaded handler
CreateParticle ==
    /\ pc = "particles"
    /\ particles < ParticleCount
    /\ IF appendChild(dom) = "appended"
       THEN particles' = particles + 1 /\ pc' = pc
       ELSE particles' = particles /\ pc' = "threw"
    /\ UNCHANGED <<registered, dom>>
    /\ UNCHANGED revealVars /\ navUnchanged

\* line 191: the loop ends; lines 214-233
AddStyle ==
    /\ particles = ParticleCount
    /\ Goto("particles", "debounced", {})
    /\ UNCHANGED revealVars /\ navUnchanged

\* lines 249-250
AddDebounced ==
    /\ Goto("debounced", "keydown", DebouncedListeners)
    /\ UNCHANGED revealVars /\ navUnchanged

\* lines 253-258
AddKeydown ==
    /\ Goto("keydown", "touch", KeyListeners)
    /\ UNCHANGED revealVars /\ navUnchanged

\* lines 261-275, then line 277
AddTouch ==
    /\ Goto("touch", "done", TouchListeners)
    /\ UNCHANGED revealVars /\ navUnchanged

----------------------------------------------------------------------------
(* The IntersectionObserver callback, lines 110-116.  A batch maps the     *)
(* elements it reports to their isIntersecting.                            *)

Batches == UNION { [S -> BOOLEAN] : S \in (SUBSET observed) \ {{}} }

\* as observerCallback, with the classes taken off an element that is
\* reported as not intersecting
observerCallbackToggle(rev, batch) ==
    (rev \ { e \in DOMAIN batch : ~batch[e] }) \cup { e \in DOMAIN batch : batch[e] }

\* lines 111-115: classList.add('fade-in', 'visible') for each intersecting entry
observerCallback(rev, batch) == rev \cup { e \in DOMAIN batch : batch[e] }

\* as Watched, with observer.unobserve called on each revealed element
WatchedUnobserve(obs, batch) == obs \ { e \in DOMAIN batch : batch[e] }

\* lines 110-116: the callback never calls observer.unobserve
Watched(obs, batch) == obs

Intersection(batch) ==
    /\ pc = "done"
    /\ revealed' = observerCallback(revealed, batch)
    /\ entries' = batch
    /\ observed' = Watched(observed, batch)
    /\ UNCHANGED loadVars /\ navUnchanged

----------------------------------------------------------------------------
(* Actions of the page once loaded *)

othersUnchanged == UNCHANGED <<revealVars, loadVars, page, queue, touchStartY>>

\* whether a scroll event at y can belong to the animated scroll towards the
\* last scrollTo request: y lies between the current position and its end
Towards(y) ==
    /\ scrollReq # <<>>
    /\ Min(scrollY, Clamp(scrollReq[1])) <= y
    /\ y <= Max(scrollY, Clamp(scrollReq[1]))

\* a click on nav link l: the listener of line 11 (when attached), then the
\* menu's listener of line 89, then the document's of line 96 (target inside
\* the panel: nothing)
NavLinkClick(l) ==
    /\ NoneDue
    /\ LET r == AnchorClick(l, scrollReq, active)
       IN  /\ event' = Event("click", <<"link", l>>, r[1])
           /\ repeated' = (event.type = "click" /\ event.target = <<"link", l>>)
           /\ scrollReq' = r[2]
           /\ active' = r[3]
           /\ clicked' = IF IsAnchor(getAttributeHref(l))
                              /\ querySelector(getAttributeHref(l)) # <<>>
                         THEN <<l, TRUE>> ELSE clicked
    /\ panelActive' = MenuLinkClick(panelActive)
    /\ btnActive' = MenuLinkClickBtn(btnActive)
    /\ UNCHANGED <<scrollY, headerStyle, timeout, sinceCall, burstCalls, debRuns, funcRuns>>
    /\ othersUnchanged

\* lines 82-85, then the document's listener (target inside the button: nothing)
MenuBtnClick ==
    /\ NoneDue
    /\ page.hasMenuBtn
    /\ panelActive' = MenuToggle(panelActive)
    /\ btnActive' = MenuToggle(btnActive)
    /\ event' = Event("click", <<"btn">>, FALSE)
    /\ repeated' = (event.type = "click" /\ event.target = <<"btn">>)
    /\ UNCHANGED <<scrollY, active, headerStyle, scrollReq, timeout, sinceCall,
                   burstCalls, debRuns, funcRuns, clicked>>
    /\ othersUnchanged

\* lines 96-101: a click outside the button and the panel
OutsideClick ==
    /\ NoneDue
    /\ panelActive' = OutsideClose(panelActive)
    /\ btnActive' = OutsideClose(btnActive)
    /\ event' = Event("click", <<"outside">>, FALSE)
    /\ repeated' = (event.type = "click" /\ event.target = <<"outside">>)
    /\ UNCHANGED <<scrollY, active, headerStyle, scrollReq, timeout, sinceCall,
                   burstCalls, debRuns, funcRuns, clicked>>
    /\ othersUnchanged

\* a click inside the panel but on no link: line 97 is false, no listener acts
PanelClick ==
    /\ NoneDue
    /\ event' = Event("click", <<"panel">>, FALSE)
    /\ repeated' = (event.type = "click" /\ event.target = <<"panel">>)
    /\ UNCHANGED <<scrollY, active, panelActive, btnActive, headerStyle, scrollReq,
                   timeout, sinceCall, burstCalls, debRuns, funcRuns, clicked>>
    /\ othersUnchanged

\* a scroll event at position y: the listeners of lines 57, 165, 249, 250
ScrollEvent(y) ==
    /\ NoneDue
    /\ LET newBurst == burstCalls = 0 \/ sinceCall >= Wait
           n == IF newBurst THEN 1 ELSE burstCalls + 1
       IN  /\ newBurst \/ burstCalls < MaxBurst
           /\ scrollY' = y
           /\ active' = updateActiveNavLink(active, y)
           /\ headerStyle' = updateHeader(y)
           /\ timeout' = [d \in Debounced |-> executedFunction(timeout[d], n)]
           /\ event' = Event("scroll", <<n>>, FALSE)
           /\ repeated' = (event.type = "scroll" /\ scrollY = y)
           /\ clicked' = IF clicked # <<>> /\ Towards(y) THEN <<clicked[1], FALSE>> ELSE <<>>
           /\ burstCalls' = n
           /\ sinceCall' = 0
           /\ debRuns' = IF newBurst THEN [d \in Debounced |-> 0] ELSE debRuns
           /\ funcRuns' = [d \in Debounced |-> (IF newBurst THEN 0 ELSE funcRuns[d]) + 1]
    /\ UNCHANGED <<panelActive, btnActive, scrollReq>>
    /\ othersUnchanged

\* lines 239-242 for debounce(updateActiveNavLink, 10): the timer fires
LaterNav ==
    /\ Due(timeout["nav"])
    /\ active' = updateActiveNavLink(active, scrollY)
    /\ timeout' = [timeout EXCEPT !["nav"] = NoTimer]
    /\ event' = Event("timeout", <<"nav", timeout["nav"][1].args>>, FALSE)
    /\ repeated' = FALSE
    /\ debRuns' = [debRuns EXCEPT !["nav"] = @ + 1]
    /\ funcRuns' = [funcRuns EXCEPT !["nav"] = @ + 1]
    /\ UNCHANGED <<scrollY, panelActive, btnActive, headerStyle, scrollReq,
                   sinceCall, burstCalls, clicked>>
    /\ othersUnchanged

\* lines 239-242 for debounce(updateHeader, 10); set after the nav timer, it
\* fires after it
LaterHdr ==
    /\ Due(timeout["hdr"])
    /\ ~Due(timeout["nav"])
    /\ headerStyle' = updateHeader(scrollY)
    /\ timeout' = [timeout EXCEPT !["hdr"] = NoTimer]
    /\ event' = Event("timeout", <<"hdr", timeout["hdr"][1].args>>, FALSE)
    /\ repeated' = FALSE
    /\ debRuns' = [debRuns EXCEPT !["hdr"] = @ + 1]
    /\ funcRuns' = [funcRuns EXCEPT !["hdr"] = @ + 1]
    /\ UNCHANGED <<scrollY, active, panelActive, btnActive, scrollReq,
                   sinceCall, burstCalls, clicked>>
    /\ othersUnchanged

\* time passes; a due timer fires before time moves on
Tick ==
    /\ NoneDue
    /\ (\E d \in Debounced : Pending(timeout[d])) \/ sinceCall < Wait \/ event # NoEvent
    /\ timeout' = [d \in Debounced |-> Elapse(timeout[d], Step)]
    /\ sinceCall' = Min(Wait, sinceCall + Step)
    /\ event' = NoEvent
    /\ repeated' = FALSE
    /\ UNCHANGED <<scrollY, active, panelActive, btnActive, headerStyle, scrollReq,
                   burstCalls, debRuns, funcRuns, clicked>>
    /\ othersUnchanged

----------------------------------------------------------------------------
(* A click on a nav link, listener by listener.  queue holds the listeners *)
(* still to run for the click in event; no other event is dispatched       *)
(* before they have all run.                                               *)

\* as LinkListeners, with the menu's listener registered before line 11
LinkListenersMenuFirst(l) ==
    (IF page.hasMenuBtn THEN <<"menuLink">> ELSE <<>>)
      \o (IF IsAnchor(getAttributeHref(l)) THEN <<"navLink">> ELSE <<>>)
      \o (IF page.hasMenuBtn THEN <<"document">> ELSE <<>>)

\* the listeners a click on link l runs, in order: those on the link in
\* registration order (line 11, then line 89), then the document's (line 96)
LinkListeners(l) ==
    (IF IsAnchor(getAttributeHref(l)) THEN <<"navLink">> ELSE <<>>)
      \o (IF page.hasMenuBtn THEN <<"menuLink">> ELSE <<>>)
      \o (IF page.hasMenuBtn THEN <<"document">> ELSE <<>>)

\* as RemoveActiveFromLinks, with 'active' removed from every element
RemoveActiveFromAll(has) == FALSE

\* line 27 on the panel and on the button: navLinks (line 4) holds the
\* '.nav-links a' elements only, neither of them
RemoveActiveFromLinks(has) == has

Idle == queue = <<>>
Running(listener) == queue # <<>> /\ Head(queue) = listener

\* the click is dispatched: nothing has run yet
DispatchLinkClick(l) ==
    /\ NoneDue /\ Idle
    /\ event' = Event("click", <<"link", l>>, FALSE)
    /\ repeated' = (event.type = "click" /\ event.target = <<"link", l>>)
    /\ queue' = LinkListeners(l)
    /\ UNCHANGED <<scrollY, active, panelActive, btnActive, headerStyle, scrollReq,
                   timeout, sinceCall, burstCalls, debRuns, funcRuns, clicked,
                   touchStartY>>
    /\ UNCHANGED <<revealVars, loadVars, page>>

\* lines 11-30
RunNavLink ==
    /\ Running("navLink")
    /\ LET l == event.target[2]
           r == AnchorClick(l, scrollReq, active)
       IN  /\ event' = [event EXCEPT !.defaultPrevented = r[1]]
           /\ scrollReq' = r[2]
           /\ active' = r[3]
           /\ clicked' = IF querySelector(getAttributeHref(l)) # <<>>
                         THEN <<l, TRUE>> ELSE clicked
           /\ panelActive' = IF querySelector(getAttributeHref(l)) # <<>>
                             THEN RemoveActiveFromLinks(panelActive) ELSE panelActive
           /\ btnActive' = IF querySelector(getAttributeHref(l)) # <<>>
                           THEN RemoveActiveFromLinks(btnActive) ELSE btnActive
    /\ queue' = Tail(queue)
    /\ UNCHANGED <<scrollY, headerStyle, timeout, sinceCall, burstCalls, debRuns,
                   funcRuns, repeated, touchStartY>>
    /\ UNCHANGED <<revealVars, loadVars, page>>

\* lines 89-92
RunMenuLink ==
    /\ Running("menuLink")
    /\ panelActive' = MenuLinkClick(panelActive)
    /\ btnActive' = MenuLinkClickBtn(btnActive)
    /\ queue' = Tail(queue)
    /\ UNCHANGED <<scrollY, active, headerStyle, scrollReq, event, repeated, timeout,
                   sinceCall, burstCalls, debRuns, funcRuns, clicked, touchStartY>>
    /\ UNCHANGED <<revealVars, loadVars, page>>

\* lines 96-101 for a target inside the panel: line 97 is false
RunDocument ==
    /\ Running("document")
    /\ queue' = Tail(queue)
    /\ UNCHANGED <<scrollY, active, panelActive, btnActive, headerStyle, scrollReq,
                   event, repeated, timeout, sinceCall, burstCalls, debRuns, funcRuns,
                   clicked, touchStartY>>
    /\ UNCHANGED <<revealVars, loadVars, page>>

----------------------------------------------------------------------------
(* Touch handlers, lines 260-275.  A touch is at clientY 0 .. MaxTouchY.   *)

TouchYs == 0 .. MaxTouchY

\* as touchmovePrevents, without the test window.scrollY === 0
touchmovePreventsAnywhere(y, deltaY) ==
    \/ deltaY < 0
    \/ (page.innerHeight + y >= page.bodyHeight /\ deltaY > 0)

\* lines 271-272, with document.body.offsetHeight the page's bodyHeight
touchmovePrevents(y, deltaY) ==
    \/ (y = 0 /\ deltaY < 0)
    \/ (page.innerHeight + y >= page.bodyHeight /\ deltaY > 0)

\* lines 262-264
TouchStart(touchY) ==
    /\ NoneDue
    /\ touchStartY' = touchY
    /\ event' = Event("touchstart", <<touchY>>, FALSE)
    /\ repeated' = FALSE
    /\ UNCHANGED <<scrollY, active, panelActive, btnActive, headerStyle, scrollReq,
                   timeout, sinceCall, burstCalls, debRuns, funcRuns, clicked, queue>>
    /\ UNCHANGED <<revealVars, loadVars, page>>

\* lines 266-275; the event's target field holds deltaY
TouchMove(touchY) ==
    /\ NoneDue
    /\ LET deltaY == touchStartY - touchY
       IN  event' = Event("touchmove", <<deltaY>>, touchmovePrevents(scrollY, deltaY))
    /\ repeated' = FALSE
    /\ UNCHANGED <<scrollY, active, panelActive, btnActive, headerStyle, scrollReq,
                   timeout, sinceCall, burstCalls, debRuns, funcRuns, clicked, queue,
                   touchStartY>>
    /\ UNCHANGED <<revealVars, loadVars, page>>

Init ==
    /\ page \in Pages
    /\ scrollY = 0
    /\ active \in { a \in SUBSET (1 .. Len(page.hrefs)) : Cardinality(a) <= 1 }
    /\ panelActive = FALSE
    /\ btnActive = FALSE
    /\ headerStyle = "css"
    /\ scrollReq = <<>>
    /\ event = NoEvent
    /\ repeated = FALSE
    /\ timeout = [d \in Debounced |-> NoTimer]
    /\ sinceCall = Wait
    /\ burstCalls = 0
    /\ debRuns = [d \in Debounced |-> 0]
    /\ funcRuns = [d \in Debounced |-> 0]
    /\ clicked = <<>>
    /\ queue = <<>>
    /\ touchStartY = 0
    /\ Loaded
    /\ observed = Observed
    /\ revealed = {}
    /\ entries = <<>>

Next ==
    \/ \E l \in navLinks : NavLinkClick(l)
    \/ MenuBtnClick
    \/ OutsideClick
    \/ PanelClick
    \/ \E y \in ScrollYs : ScrollEvent(y)
    \/ LaterNav
    \/ LaterHdr
    \/ Tick

Spec == Init /\ [][Next]_vars

\* the loaded page with a link click taken listener by listener
NextDispatch ==
    \/ \E l \in navLinks : DispatchLinkClick(l)
    \/ RunNavLink
    \/ RunMenuLink
    \/ RunDocument
    \/ Idle /\ MenuBtnClick
    \/ Idle /\ OutsideClick
    \/ Idle /\ (\E y \in ScrollYs : ScrollEvent(y))
    \/ Idle /\ LaterNav
    \/ Idle /\ LaterHdr
    \/ Idle /\ Tick

SpecDispatch == Init /\ [][NextDispatch]_vars

\* the loaded page under scrolling and touches
InitTouch ==
    /\ Init
    /\ active = {}

NextTouch ==
    \/ \E touchY \in TouchYs : TouchStart(touchY)
    \/ \E touchY \in TouchYs : TouchMove(touchY)
    \/ \E y \in ScrollYs : ScrollEvent(y)
    \/ LaterNav
    \/ LaterHdr
    \/ Tick

SpecTouch == InitTouch /\ [][NextTouch]_vars

\* a page that is loaded and left alone but for the observer
InitReveal ==
    /\ Init
    /\ page = PageA
    /\ active = {}

NextReveal == \E batch \in Batches : Intersection(batch)

SpecReveal == InitReveal /\ [][NextReveal]_vars

\* a page about to run its DOMContentLoaded handler
InitLoad ==
    /\ page \in Pages
    /\ dom \in SUBSET Optional
    /\ pc = "navLinks"
    /\ registered = {}
    /\ particles = 0
    /\ observed = {}
    /\ revealed = {}
    /\ entries = <<>>
    /\ scrollY = 0
    /\ active = {}
    /\ panelActive = FALSE
    /\ btnActive = FALSE
    /\ headerStyle = "css"
    /\ scrollReq = <<>>
    /\ event = NoEvent
    /\ repeated = FALSE
    /\ timeout = [d \in Debounced |-> NoTimer]
    /\ sinceCall = Wait
    /\ burstCalls = 0
    /\ debRuns = [d \in Debounced |-> 0]
    /\ funcRuns = [d \in Debounced |-> 0]
    /\ clicked = <<>>
    /\ queue = <<>>
    /\ touchStartY = 0

NextLoad ==
    \/ AddNavLinkListeners
    \/ AddScrollNav
    \/ AddResumeToggle
    \/ AddMobileMenu
    \/ ObserveAll
    \/ AddCardListeners
    \/ AddScrollHdr
    \/ StartTyping
    \/ CreateParticle
    \/ AddStyle
    \/ AddDebounced
    \/ AddKeydown
    \/ AddTouch

SpecLoad == InitLoad /\ [][NextLoad]_vars

----------------------------------------------------------------------------
(* Properties *)

href(l) == page.hrefs[l]
Fragment(h) == Len(h) > 0 /\ h[1] = "#"
InPageActive == { l \in active : Fragment(href(l)) }
LinkClicked(e) == e.type = "click" /\ e.target[1] = "link"
UpdateRan(e) == e.type = "scroll" \/ (e.type = "timeout" /\ e.target[1] = "nav")
ProbeInNoSection(y) ==
    \A s \in Sections :
        ~(y + 100 >= page.sections[s].top
          /\ y + 100 < page.sections[s].top + page.sections[s].height)

\* C1 as stated: in every reachable state at most one in-page nav link has
\* the 'active' class.
C1_AtMostOneActive == Cardinality(InPageActive) <= 1

\* C1 amended: all links that are active at the same time have the same
\* href, so on a page whose nav links have pairwise distinct hrefs at most
\* one in-page nav link is active.
C1_ActiveShareHref ==
    /\ \A i, j \in active : href(i) = href(j)
    /\ DistinctHrefs(page) => Cardinality(InPageActive) <= 1

\* C1 witness: on a page with distinct hrefs, after a click and a later scroll
\* recomputation, exactly one link is active and it is not the clicked one.
C1_Witness ==
    /\ DistinctHrefs(page)
    /\ UpdateRan(event)
    /\ scrollReq # <<>>
    /\ Cardinality(InPageActive) = 1
    /\ \E l \in InPageActive : querySelector(href(l)) # <<scrollReq[1] + page.headerHeight>>

\* C2: right after the click handler of an in-page link whose target exists,
\* the default is suppressed, the clicked link is the only active one and
\* the scroll request is target.offsetTop - headerHeight.
C2_AnchorClick ==
    (LinkClicked(event) /\ Fragment(href(event.target[2]))
        /\ Targets(href(event.target[2])) # {})
    => /\ event.defaultPrevented
       /\ active = {event.target[2]}
       /\ Len(scrollReq) = 1
       /\ scrollReq[1] + page.headerHeight \in Targets(href(event.target[2]))

\* C2 witness: such a click happened while another link was active before;
\* the request is above the target by the header height.
C2_Witness ==
    /\ LinkClicked(event)
    /\ event.defaultPrevented
    /\ active = {event.target[2]}
    /\ scrollReq = <<140>>
    /\ page.headerHeight = 60
    /\ scrollY = 300

\* C3: a click on a nav link whose href is no same-page fragment never
\* suppresses the default and leaves every link's active state as it was.
C3_ExternalClick ==
    [][ (LinkClicked(event') /\ ~Fragment(href(event'.target[2])))
        => (~event'.defaultPrevented /\ active' = active /\ scrollReq' = scrollReq) ]_vars

\* C3 witness: an external link was clicked while some link was active.
C3_Witness ==
    /\ LinkClicked(event)
    /\ ~Fragment(href(event.target[2]))
    /\ Len(href(event.target[2])) > 0
    /\ ~event.defaultPrevented
    /\ active # {}

\* C4: when updateActiveNavLink runs with scrollY + 100 in no section's
\* range, the set of active links is left as it was.
C4_GapKeepsActive ==
    [][ (UpdateRan(event') /\ ProbeInNoSection(scrollY')) => active' = active ]_vars

\* C4 witness: a recomputation ran with the probe in a gap between two
\* sections while a link was active.
C4_Witness ==
    /\ UpdateRan(event)
    /\ ProbeInNoSection(scrollY)
    /\ \E s \in Sections : page.sections[s].top > scrollY + 100
    /\ \E s \in Sections : page.sections[s].top < scrollY + 100
    /\ active # {}

\* C5: a second activation in a row for the same id changes nothing: after a
\* scroll recomputation the state is a fixed point of the recomputation at
\* that position, after a click it is a fixed point of that click, and two
\* such steps in a row leave the active set as the first left it.
C5_FixedPoint ==
    /\ UpdateRan(event) => updateActiveNavLink(active, scrollY) = active
    /\ LinkClicked(event) =>
         AnchorClick(event.target[2], scrollReq, active)[3] = active

C5_Twice ==
    /\ (UpdateRan(event) /\ UpdateRan(event') /\ scrollY' = scrollY) => active' = active
    /\ (LinkClicked(event) /\ LinkClicked(event') /\ event'.target = event.target)
          => active' = active

C5_Idempotent == []C5_FixedPoint /\ [][C5_Twice]_vars

\* C5 witness: the same in-page link was clicked twice in a row and is the
\* only active link, where a recomputation at this position would pick
\* another link.
C5_Witness ==
    /\ repeated
    /\ LinkClicked(event)
    /\ event.defaultPrevented
    /\ active = {event.target[2]}
    /\ updateActiveNavLink(active, scrollY) # active

\* C6: for each debounced function, a burst of calls less than Wait ms apart
\* gives exactly one invocation of the wrapped function: none while a timer
\* is pending, one once it has fired; the invocation comes Wait ms after the
\* last call of the burst and with that call's arguments.
C6_Debounce ==
    \A d \in Debounced :
        /\ debRuns[d] <= 1
        /\ Pending(timeout[d]) => debRuns[d] = 0
        /\ (~Pending(timeout[d]) /\ burstCalls >= 1) => debRuns[d] = 1
        /\ (event.type = "timeout" /\ event.target[1] = d)
              => (sinceCall = Wait /\ event.target[2] = burstCalls)

\* C6 witness: a burst of at least two calls has ended and both wrapped
\* functions have been invoked, with the arguments of the last call.
C6_Witness ==
    /\ burstCalls >= 2
    /\ event.type = "timeout"
    /\ event.target = <<"hdr", burstCalls>>
    /\ \A d \in Debounced : debRuns[d] = 1 /\ ~Pending(timeout[d])

\* C7 as stated: updateActiveNavLink and updateHeader run only through the
\* debouncer: in a burst of scroll events neither runs while its timer is
\* pending, and each runs once per burst.
C7_OnlyDebounced ==
    \A f \in Debounced :
        /\ funcRuns[f] <= 1
        /\ Pending(timeout[f]) => funcRuns[f] = 0

\* C9: the toggle button flips the menu; right after a click outside the
\* button and the panel, or on a nav link, the menu is closed; an outside
\* click on a closed menu changes nothing.
C9_ClosedAfter ==
    (event.type = "click" /\ event.target[1] \in {"outside", "link"})
        => (~panelActive /\ ~btnActive)

C9_Step ==
    /\ (event'.type = "click" /\ event'.target = <<"btn">>)
          => (panelActive' = ~panelActive /\ btnActive' = ~btnActive)
    /\ (event'.type = "click" /\ event'.target = <<"outside">> /\ ~panelActive)
          => UNCHANGED <<panelActive, btnActive, active, scrollY, scrollReq, headerStyle>>

C9_MobileMenu ==
    /\ ~panelActive /\ ~btnActive
    /\ []C9_ClosedAfter
    /\ [][C9_Step]_vars

\* C9 witness: a click on an in-page link found the menu open and left it
\* closed, the clicked link active.
C9_Witness ==
    /\ LinkClicked(event)
    /\ event.menuWasOpen
    /\ ~panelActive /\ ~btnActive
    /\ active = {event.target[2]}

\* C8: an element that is revealed stays revealed, whatever later batches
\* report about it.
C8_RevealMonotonic == [][revealed \subseteq revealed']_vars

\* C8 witness: a revealed element has since been reported as not
\* intersecting and is still revealed.
C8_Witness ==
    \E e \in revealed : e \in DOMAIN entries /\ ~entries[e]

\* C10 as stated: on a page without hero element the handler raises no
\* exception and ends with the debounced scroll listeners, the keydown
\* listener and the touch listeners registered.
C10_NoHeroLoads ==
    ("hero" \notin dom)
        => /\ pc # "threw"
           /\ pc \in {"done", "threw"}
                => (DebouncedListeners \cup KeyListeners \cup TouchListeners)
                      \subseteq registered

\* C11: a click on an in-page link whose fragment names no element
\* suppresses the default and does nothing else: no scroll request, no
\* change of any link's active state.
C11_MissingTarget ==
    [][ (LinkClicked(event') /\ Fragment(href(event'.target[2]))
            /\ Targets(href(event'.target[2])) = {})
        => (event'.defaultPrevented /\ scrollReq' = scrollReq /\ active' = active) ]_vars

\* C11 witness: such a link was clicked while another link was active and an
\* earlier request was on record; both are still there.
C11_Witness ==
    /\ LinkClicked(event)
    /\ Fragment(href(event.target[2]))
    /\ Targets(href(event.target[2])) = {}
    /\ event.defaultPrevented
    /\ active # {} /\ event.target[2] \notin active
    /\ scrollReq # <<>>

HeaderRan(e) == e.type = "scroll" \/ (e.type = "timeout" /\ e.target[1] = "hdr")

\* C13: once updateHeader has run the header is in the scrolled state
\* exactly when scrollY > 50, whatever it was before, and a second run at
\* the same scrollY changes nothing.
C13_HeaderState ==
    headerStyle # "css" => (headerStyle = "scrolled" <=> scrollY > 50)

C13_HeaderTwice ==
    (HeaderRan(event) /\ HeaderRan(event') /\ scrollY' = scrollY)
        => headerStyle' = headerStyle

C13_UpdateHeader == []C13_HeaderState /\ [][C13_HeaderTwice]_vars

\* C13 witness: the debounced updateHeader ran at scrollY = 50 and the
\* header is not in the scrolled state.
C13_Witness ==
    /\ event.type = "timeout" /\ event.target[1] = "hdr"
    /\ scrollY = 50
    /\ headerStyle = "top"

\* C15 as stated: right after a click on a link to section S the active
\* links are those a scroll recomputation inside S marks: all links whose
\* href is '#S'.
C15_ClickAsScroll ==
    \A s \in Sections :
        (LinkClicked(event) /\ href(event.target[2]) = <<"#", page.sections[s].id>>)
            => active = { l \in navLinks : href(l) = <<"#", page.sections[s].id>> }

\* C18: the menu panel and the toggle button carry 'active' together or
\* not at all.
C18_MenuClassesAgree == panelActive <=> btnActive

\* C18 witness: the menu is open, both classes present, after a link was
\* clicked (which closed it) and the button pressed again.
C18_Witness ==
    /\ panelActive /\ btnActive
    /\ scrollReq # <<>>
    /\ event.type = "click" /\ event.target = <<"btn">>

Settled ==
    /\ clicked # <<>>
    /\ scrollY = Clamp(scrollReq[1])
    /\ \A d \in Debounced : ~Pending(timeout[d])

\* C19 as stated: once the scroll requested by a click on the link T of a
\* section has settled and the scroll handlers have run, T is active.
C19_SettledOnTarget ==
    (Settled /\ \E s \in Sections : href(clicked[1]) = <<"#", page.sections[s].id>>)
        => clicked[1] \in active

\* C20 as stated: while no scroll event has been dispatched since the click
\* on T, a debounce timer that fires leaves T active.
C20_TimerKeepsClicked ==
    [][ (clicked # <<>> /\ clicked[2] /\ clicked[1] \in active /\ event'.type = "timeout")
        => clicked[1] \in active' ]_vars

AtBottom == page.innerHeight + scrollY >= page.bodyHeight

\* C12 as stated: a touchmove with deltaY < 0 is suppressed at scrollY = 0
\* and not suppressed at any scrollY > 0; at the document bottom the default
\* is suppressed only when deltaY > 0.
C12_Overscroll ==
    event.type = "touchmove" =>
        /\ (scrollY = 0 /\ event.target[1] < 0) => event.defaultPrevented
        /\ (scrollY > 0 /\ event.target[1] < 0) => ~event.defaultPrevented
        /\ (AtBottom /\ event.target[1] > 0) => event.defaultPrevented
        /\ (AtBottom /\ event.defaultPrevented) => event.target[1] > 0

\* C12 amended: as stated, but at the bottom the default is suppressed only
\* when deltaY > 0 provided scrollY > 0; on a page that cannot scroll the top
\* is the bottom and a drag with deltaY < 0 is suppressed there too.
C12_OverscrollScrolled ==
    event.type = "touchmove" =>
        /\ (scrollY = 0 /\ event.target[1] < 0) => event.defaultPrevented
        /\ (scrollY > 0 /\ event.target[1] < 0) => ~event.defaultPrevented
        /\ (AtBottom /\ event.target[1] > 0) => event.defaultPrevented
        /\ (AtBottom /\ scrollY > 0 /\ event.defaultPrevented) => event.target[1] > 0
        /\ (AtBottom /\ scrollY = 0 /\ event.target[1] < 0) => event.defaultPrevented

\* C12 witness: a drag with deltaY < 0 on a page scrolled to its bottom was
\* not suppressed.
C12_Witness ==
    /\ event.type = "touchmove"
    /\ event.target[1] < 0
    /\ scrollY > 0 /\ AtBottom
    /\ ~event.defaultPrevented

\* C16 as stated: once an element has been revealed the observer no longer
\* watches it.
C16_Unobserved == \A e \in revealed : e \notin observed

\* C16 amended: the observer keeps watching every element it was given,
\* revealed or not, and a later notification for a revealed element is
\* delivered and leaves the element revealed.
C16_StillObserved ==
    /\ [](revealed \subseteq observed /\ observed = Observed)
    /\ [][\A e \in revealed \cap DOMAIN entries' : e \in revealed']_vars

\* C16 witness: every observed element has been revealed, all are still
\* watched, and the last notification was for a revealed element that has
\* left the viewport.
C16_Witness ==
    /\ revealed = Observed /\ observed = Observed
    /\ \E e \in DOMAIN entries : ~entries[e]

ToRun(listener) == \E i \in 1 .. Len(queue) : queue[i] = listener
OnLink == event.type = "click" /\ Len(event.target) = 2 /\ event.target[1] = "link"

\* the nav link listener's work for the click in event has been done
LinkHandled ==
    LET h == href(event.target[2])
    IN  IsAnchor(h) =>
            /\ event.defaultPrevented
            /\ querySelector(h) # <<>> =>
                   /\ scrollReq = <<ClickOffsetTop(querySelector(h))>>
                   /\ event.target[2] \in active

\* C14: on a click of an in-menu nav link the menu's listener runs after the
\* link's own listener, so once it has run the default is suppressed, the
\* scroll is requested and the clicked link is active; and the menu is then
\* closed whether it was open or closed at the click.
C14_HandledThenClosed ==
    (OnLink /\ page.hasMenuBtn) =>
        /\ ToRun("navLink") => ToRun("menuLink")
        /\ ~ToRun("menuLink") => (LinkHandled /\ ~panelActive /\ ~btnActive)

\* C14 witness: the link's listener has run for a click made with the menu
\* open (default suppressed, scroll requested, link active) and the menu's
\* listener is next: the panel is still open.
C14_Witness ==
    /\ OnLink /\ event.menuWasOpen
    /\ Running("menuLink")
    /\ panelActive /\ btnActive
    /\ event.defaultPrevented
    /\ scrollReq # <<>>
    /\ event.target[2] \in active

MenuUnchanged == panelActive' = panelActive /\ btnActive' = btnActive

\* C17: a toggle press or an outside click leaves the set of active links
\* as it is; a scroll event, a debounce timer and the nav link listener of
\* a click leave the 'active' class of the panel and of the button as it
\* is; on a link click only the menu's own listener changes them.
C17_Disjoint ==
    [][ /\ (event'.type = "click" /\ event'.target \in {<<"btn">>, <<"outside">>})
            => active' = active
        /\ event'.type \in {"scroll", "timeout"} => MenuUnchanged
        /\ Running("navLink") => MenuUnchanged
        /\ (event'.type = "click" /\ event'.target[1] = "link" /\ ~MenuUnchanged)
            => Running("menuLink") ]_vars

\* C17 witness: on a scrolled page the nav link listener has just made the
\* clicked link the only active one, and the menu is still open.
C17_Witness ==
    /\ OnLink /\ Running("menuLink")
    /\ clicked # <<>> /\ clicked[1] = event.target[2] /\ clicked[2]
    /\ active = {event.target[2]}
    /\ panelActive /\ btnActive
    /\ headerStyle = "scrolled"

====
